---- MODULE Spec2Model ----
(***************************************************************************)
(* State-machine model of the api_yamdb request handlers (api/views.py)   *)
(* over the relational tables of reviews/models.py.                       *)
(*                                                                         *)
(* The database is the only state.  A user row is keyed by its username   *)
(* (unique in AbstractUser, and the lookup_field of UserViewSet); title,  *)
(* review and comment rows are keyed by their primary key.  Requests are  *)
(* well-formed (they pass field-level serializer validation); a requester *)
(* is the username the bearer token authenticates, or Anon.               *)
(*                                                                         *)
(* In SpecAuth and SpecContent requests are served one at a time: every   *)
(* action is one whole request handler, from the authentication to the    *)
(* response, and records the response in `last`.  The handlers open no    *)
(* transaction and take no lock, so among concurrent requests (SpecConc,  *)
(* SpecConcUsers) every database statement of a handler is a step of its  *)
(* own: the SELECT of the authentication, each SELECT, INSERT and UPDATE  *)
(* the handler issues (those inside get_or_create and Model.save()        *)
(* included), and the one transaction in which Model.delete() deletes.    *)
(* Between its steps a request waits in `inflight` with what it holds in  *)
(* memory, and the statements of other requests run.                      *)
(*                                                                         *)
(* A row holds the columns the handlers branch on or write from the       *)
(* request: email and role of a user; author, title and score of a        *)
(* review; author, review and text of a comment.  User declares no        *)
(* confirmation_code column (reviews/models.py), so the code signup       *)
(* assigns to the instance is not saved and get_token finds no such       *)
(* attribute on the row it fetches.  A PATCH of a user writes email and   *)
(* role; the username, being the key, stays.  Primary keys come from a    *)
(* per-table sequence and are never handed out twice; the author of a     *)
(* review or comment is the primary key of a user (author_id), so a user  *)
(* deleted and signed up again is another author.  The model keeps no     *)
(* column a PATCH of a title writes.                                      *)
(* api/permissions.py and the user, review and comment serializers are    *)
(* not among the source files; they are modelled as the specification     *)
(* describes them.                                                        *)
(***************************************************************************)
EXTENDS Integers, FiniteSets, Bags, TLC

VARIABLES users, titles, reviews, comments, seq, inflight, last

vars == <<users, titles, reviews, comments, seq, inflight, last>>

----------------------------------------------------------------------------
(* Bounds of the model *)

MaxUsers == 3
MaxTitles == 1
MaxReviews == 2
MaxComments == 1
MaxInflight == 2

(* Values requests are drawn from *)

Anon == "anonymous"
SignupNames == {"admin", "alice", "bob"}
Emails == {"a@x.com", "b@x.com"}
Codes == {"1111", "2222"}
Scores == {1, 2}
Texts == {"good", "bad"}

(* reviews/models.py ROLES; a role column left unset is NULL *)
ROLES == {"user", "moderator", "admin"}
NoRole == "null"
NoToken == "none"
Unset == "unset"

----------------------------------------------------------------------------
(* Rows *)

UserRow(i, e, r) == [id |-> i, email |-> e, role |-> r]
(* author: the primary key of the user; title, review: that of the parent *)
ReviewRow(a, t, s) == [author |-> a, title |-> t, score |-> s]
CommentRow(a, r, x) == [author |-> a, review |-> r, text |-> x]

Without(f, k) == [x \in DOMAIN f \ {k} |-> f[x]]

(* The primary key the database assigns to a new row: the successor of the *)
(* last key the table's sequence handed out, deleted rows included        *)
NewId(lastId) == lastId + 1

(* The tables and their sequences *)
db == <<users, titles, reviews, comments, seq>>

(* Requests in flight: a request that has run a statement and has more to *)
(* run holds, in memory, the statement it is at (pc) and what it has read *)
At(p, pc) == BagIn(p, inflight) /\ p.pc = pc

(* A request runs its first statement and is in flight from then on *)
Hold(request) ==
    /\ BagCardinality(inflight) < MaxInflight
    /\ inflight' = inflight (+) SetToBag({request})
    /\ last' = last

(* A request in flight runs a statement and has more to run *)
Continue(p, request) ==
    /\ inflight' = (inflight (-) SetToBag({p})) (+) SetToBag({request})
    /\ last' = last
----------------------------------------------------------------------------
(* Responses *)

NoBody == [f \in {} |-> 0]

Response(op, status) ==
    [op |-> op, status |-> status, token |-> NoToken, body |-> NoBody]


(* A request in flight runs its last statement and is answered *)
Answer(p, op, status) ==
    /\ inflight' = inflight (-) SetToBag({p})
    /\ last' = Response(op, status)

----------------------------------------------------------------------------
(* request.user *)

(* A User instance in the memory of a request: the row it was loaded from  *)
(* together with its username                                              *)
Instance(u, row) == ("username" :> u) @@ row

(* request.user of a request without credentials *)
AnonymousUser == [username |-> Anon, id |-> 0, email |-> "", role |-> NoRole]

(* request.user as the authentication loads it when the request arrives   *)
request_user(req) ==
    IF req \in DOMAIN users THEN Instance(req, users[req]) ELSE AnonymousUser

----------------------------------------------------------------------------
(* Permission policies; they read request.user, not the table *)

IsAuthenticated(user) == user["username"] # Anon

IsAdmin(user) == IsAuthenticated(user) /\ user["role"] = "admin"

IsModerator(user) == IsAuthenticated(user) /\ user["role"] = "moderator"

(* 401 for a request without credentials, 403 for one whose role is refused *)
Refusal(user) == IF IsAuthenticated(user) THEN 403 ELSE 401

AdminAndSuperUser(user) == IsAdmin(user)

(* Among concurrent requests: the authentication of a request that bears  *)
(* the token of a stored user, the SELECT of that user's row               *)
authenticate(req) ==
    /\ req \in DOMAIN users
    /\ Hold([pc |-> "authenticated", user |-> request_user(req)])
    /\ UNCHANGED db
----------------------------------------------------------------------------
(* Authentication flow *)

(* The columns of the user table: the fields User declares, of those the   *)
(* model keeps; the username is the key of the row                         *)
UserColumns == {"id", "email", "role"}

(* The UPDATE of instance.save(), WHERE id = the primary key of the        *)
(* instance, matches a row                                                 *)
UpdateHits(table, instance) ==
    \E v \in DOMAIN table : table[v].id = instance["id"]

(* That UPDATE: every column of the matched row is set from the instance;  *)
(* an attribute of the instance that is no column is not stored            *)
Update(table, instance) ==
    [v \in DOMAIN table |->
        IF table[v].id = instance["id"]
        THEN [f \in UserColumns |-> instance[f]]
        ELSE table[v]]

(* The INSERT of a user with the primary key and the username given: both  *)
(* are unique, IntegrityError if either is stored                          *)
InsertFails(table, instance) ==
    \/ UpdateHits(table, instance)
    \/ instance["username"] \in DOMAIN table

Insert(table, instance) ==
    table @@ (instance["username"] :> [f \in UserColumns |-> instance[f]])

(* instance.save() without another statement in between: the UPDATE, and  *)
(* the INSERT when no row was updated                                      *)
SaveFails(table, instance) ==
    ~UpdateHits(table, instance) /\ InsertFails(table, instance)

Save(table, instance) ==
    IF UpdateHits(table, instance)
    THEN Update(table, instance)
    ELSE Insert(table, instance)

(* The SELECT of get_or_create: a row with every given field;    *)
(* a field the request left out is not among the kwargs                    *)
GetOrCreateFinds(table, kwargs) ==
    /\ kwargs.username \in DOMAIN table
    /\ table[kwargs.username].email = kwargs.email
    /\ kwargs.role = Unset \/ table[kwargs.username].role = kwargs.role

(* The row the INSERT of get_or_create stores *)
Created(kwargs) ==
    UserRow(NewId(seq.users), kwargs.email,
            IF kwargs.role = Unset THEN NoRole ELSE kwargs.role)

AttributeError == "AttributeError"

(* user.confirmation_code, read from a row fetched from the table *)
confirmation_code(user) ==
    IF "confirmation_code" \in DOMAIN user
    THEN user["confirmation_code"]
    ELSE AttributeError
(* POST /auth/signup, served without another request in between; c is    *)
(* the code generator() returns                                           *)
signup(u, e, c) ==
    /\ IF u \in DOMAIN users /\ users[u].email = e
       THEN /\ users' = Save(users, ("confirmation_code" :> c)
                                      @@ Instance(u, users[u]))
            /\ seq' = seq
            /\ last' = Response("signup", 200)
       ELSE IF u \in DOMAIN users
       THEN /\ UNCHANGED <<users, seq>>
            /\ last' = Response("signup", 500)
       ELSE /\ seq.users < MaxUsers
            /\ LET created == UserRow(NewId(seq.users), e, NoRole)
               IN  users' = Save(users @@ (u :> created),
                                 ("confirmation_code" :> c)
                                    @@ Instance(u, created))
            /\ seq' = [seq EXCEPT !.users = NewId(@)]
            /\ last' = Response("signup", 200)
    /\ UNCHANGED <<titles, reviews, comments, inflight>>

(* signup among concurrent requests, statement by statement.  First the   *)
(* SELECT of get_or_create                                                *)
signupGet(u, e) ==
    /\ LET kwargs == [username |-> u, email |-> e, role |-> Unset]
       IN  IF GetOrCreateFinds(users, kwargs)
           THEN Hold([pc |-> "signup_save", user |-> Instance(u, users[u])])
           ELSE Hold([pc |-> "signup_create", kwargs |-> kwargs])
    /\ UNCHANGED db

(* no row found: the INSERT of get_or_create; IntegrityError when the     *)
(* username is stored by now                                              *)
signupCreate(p) ==
    /\ At(p, "signup_create")
    /\ LET u == p.kwargs.username
       IN  IF u \in DOMAIN users
           THEN /\ Continue(p, [pc |-> "signup_get_again", kwargs |-> p.kwargs])
                /\ UNCHANGED db
           ELSE /\ seq.users < MaxUsers
                /\ users' = users @@ (u :> Created(p.kwargs))
                /\ seq' = [seq EXCEPT !.users = NewId(@)]
                /\ Continue(p, [pc |-> "signup_save",
                                user |-> Instance(u, Created(p.kwargs))])
                /\ UNCHANGED <<titles, reviews, comments>>

(* after the IntegrityError get_or_create SELECTs again and raises the    *)
(* error when it still finds no row                                       *)
signupGetAgain(p) ==
    /\ At(p, "signup_get_again")
    /\ IF GetOrCreateFinds(users, p.kwargs)
       THEN Continue(p, [pc |-> "signup_save",
                         user |-> Instance(p.kwargs.username,
                                           users[p.kwargs.username])])
       ELSE Answer(p, "signup", 500)
    /\ UNCHANGED db

(* user.confirmation_code = generator() and the UPDATE of user.save() *)
signupUpdate(p, c) ==
    /\ At(p, "signup_save")
    /\ LET user == ("confirmation_code" :> c) @@ p.user
       IN  IF UpdateHits(users, user)
           THEN /\ users' = Update(users, user)
                /\ Answer(p, "signup", 200)
           ELSE /\ users' = users
                /\ Continue(p, [pc |-> "signup_insert", user |-> user])
    /\ UNCHANGED <<titles, reviews, comments, seq>>

(* the UPDATE matched no row: the INSERT of user.save() *)
signupInsert(p) ==
    /\ At(p, "signup_insert")
    /\ IF InsertFails(users, p.user)
       THEN /\ users' = users
            /\ Answer(p, "signup", 500)
       ELSE /\ users' = Insert(users, p.user)
            /\ Answer(p, "signup", 200)
    /\ UNCHANGED <<titles, reviews, comments, seq>>

(* POST /auth/token; the unhandled AttributeError is answered with 500 *)
get_token(u, c) ==
    /\ IF u \in DOMAIN users
       THEN IF confirmation_code(users[u]) = AttributeError
            THEN last' = Response("get_token", 500)
            ELSE IF confirmation_code(users[u]) = c
            THEN last' = [Response("get_token", 200) EXCEPT !.token = u]
            ELSE last' = Response("get_token", 400)
       ELSE last' = Response("get_token", 404)
    /\ UNCHANGED <<users, titles, reviews, comments, seq, inflight>>

----------------------------------------------------------------------------
(* Cascading deletes (on_delete=models.CASCADE) *)

(* The reviews that go when the titles T and the users with the primary   *)
(* keys U are deleted                                                     *)
CascadedReviews(T, U) ==
    {r \in DOMAIN reviews : reviews[r].title \in T \/ reviews[r].author \in U}

(* Faulty variant: comments do not follow their review *)
CascadedCommentsOfUsers(R, U) ==
    {c \in DOMAIN comments : comments[c].author \in U}

(* The comments that go when the reviews R and the users with the primary *)
(* keys U are deleted                                                     *)
CascadedComments(R, U) ==
    {c \in DOMAIN comments : comments[c].review \in R \/ comments[c].author \in U}

Cascade(T, U) ==
    LET R == CascadedReviews(T, U)
        C == CascadedComments(R, U)
    IN  /\ reviews' = [r \in DOMAIN reviews \ R |-> reviews[r]]
        /\ comments' = [c \in DOMAIN comments \ C |-> comments[c]]

----------------------------------------------------------------------------
(* User resource *)

(* serializer.save(): the fields present in the validated data are written *)
SaveUser(row, e, r) ==
    [row EXCEPT !.email = IF e = Unset THEN @ ELSE e,
                !.role = IF r = Unset THEN @ ELSE r]

(* POST /users, served without another request in between *)
UserCreate(req, u, e, r) ==
    /\ IF ~AdminAndSuperUser(request_user(req))
       THEN /\ UNCHANGED <<users, seq>>
            /\ last' = Response("user_create", Refusal(request_user(req)))
       ELSE IF \E v \in DOMAIN users : users[v].email = e
       THEN /\ UNCHANGED <<users, seq>>
            /\ last' = Response("user_create", 400)
       ELSE IF u \in DOMAIN users
       THEN /\ UNCHANGED <<users, seq>>
            /\ \E st \in {400, 500} : last' = Response("user_create", st)
       ELSE /\ seq.users < MaxUsers
            /\ users' = users @@
                  (u :> UserRow(NewId(seq.users), e,
                                IF r = Unset THEN NoRole ELSE r))
            /\ seq' = [seq EXCEPT !.users = NewId(@)]
            /\ last' = Response("user_create", 201)
    /\ UNCHANGED <<titles, reviews, comments, inflight>>

(* POST /users among concurrent requests, statement by statement.  First  *)
(* the permission and serializer.is_valid(): a serializer that validates  *)
(* the uniqueness of the username SELECTs it here                         *)
UserCreateIsValid(p, u, e, r) ==
    /\ At(p, "authenticated")
    /\ IF ~AdminAndSuperUser(p.user)
       THEN Answer(p, "user_create", Refusal(p.user))
       ELSE \/ u \in DOMAIN users /\ Answer(p, "user_create", 400)
            \/ Continue(p, [pc |-> "user_create_email",
                            kwargs |-> [username |-> u, email |-> e,
                                        role |-> r]])
    /\ UNCHANGED db

(* User.objects.filter(email=email).first() *)
UserCreateEmail(p) ==
    /\ At(p, "user_create_email")
    /\ IF \E v \in DOMAIN users : users[v].email = p.kwargs.email
       THEN Answer(p, "user_create", 400)
       ELSE Continue(p, [pc |-> "user_create_get", kwargs |-> p.kwargs])
    /\ UNCHANGED db

(* the SELECT of get_or_create *)
UserCreateGet(p) ==
    /\ At(p, "user_create_get")
    /\ IF GetOrCreateFinds(users, p.kwargs)
       THEN Answer(p, "user_create", 201)
       ELSE Continue(p, [pc |-> "user_create_insert", kwargs |-> p.kwargs])
    /\ UNCHANGED db

(* the INSERT of get_or_create; IntegrityError when the username is       *)
(* stored by now                                                          *)
UserCreateInsert(p) ==
    /\ At(p, "user_create_insert")
    /\ LET u == p.kwargs.username
       IN  IF u \in DOMAIN users
           THEN /\ Continue(p, [pc |-> "user_create_get_again",
                                kwargs |-> p.kwargs])
                /\ UNCHANGED db
           ELSE /\ seq.users < MaxUsers
                /\ users' = users @@ (u :> Created(p.kwargs))
                /\ seq' = [seq EXCEPT !.users = NewId(@)]
                /\ Answer(p, "user_create", 201)
                /\ UNCHANGED <<titles, reviews, comments>>

(* the second SELECT of get_or_create; the IntegrityError is raised when  *)
(* it finds no row                                                        *)
UserCreateGetAgain(p) ==
    /\ At(p, "user_create_get_again")
    /\ IF GetOrCreateFinds(users, p.kwargs)
       THEN Answer(p, "user_create", 201)
       ELSE Answer(p, "user_create", 500)
    /\ UNCHANGED db

(* PATCH /users/{username} *)
UserPartialUpdate(req, u, e, r) ==
    /\ IF ~AdminAndSuperUser(request_user(req))
       THEN /\ users' = users
            /\ last' = Response("user_update", Refusal(request_user(req)))
       ELSE IF u \notin DOMAIN users
       THEN /\ users' = users
            /\ last' = Response("user_update", 404)
       ELSE /\ users' = [users EXCEPT ![u] = SaveUser(@, e, r)]
            /\ last' = Response("user_update", 200)
    /\ UNCHANGED <<titles, reviews, comments, seq, inflight>>

(* DELETE /users/{username} *)
UserDestroy(req, u) ==
    IF ~AdminAndSuperUser(request_user(req))
    THEN /\ last' = Response("user_destroy", Refusal(request_user(req)))
         /\ UNCHANGED <<users, titles, reviews, comments, seq, inflight>>
    ELSE IF u \notin DOMAIN users
    THEN /\ last' = Response("user_destroy", 404)
         /\ UNCHANGED <<users, titles, reviews, comments, seq, inflight>>
    ELSE /\ users' = Without(users, u)
         /\ Cascade({}, {users[u].id})
         /\ last' = Response("user_destroy", 204)
         /\ UNCHANGED <<titles, seq, inflight>>

(* PATCH /users/{username} among concurrent requests: the permission and  *)
(* the SELECT of get_object                                               *)
UserUpdateGet(p, u) ==
    /\ At(p, "authenticated")
    /\ IF ~AdminAndSuperUser(p.user)
       THEN Answer(p, "user_update", Refusal(p.user))
       ELSE IF u \notin DOMAIN users
       THEN Answer(p, "user_update", 404)
       ELSE Continue(p, [pc |-> "user_update_save",
                         user |-> Instance(u, users[u])])
    /\ UNCHANGED db

(* serializer.save(): the validated data are set on the instance, then    *)
(* the UPDATE of instance.save()                                          *)
UserUpdateUpdate(p, e, r) ==
    /\ At(p, "user_update_save")
    /\ LET user == SaveUser(p.user, e, r)
       IN  IF UpdateHits(users, user)
           THEN /\ users' = Update(users, user)
                /\ Answer(p, "user_update", 200)
           ELSE /\ users' = users
                /\ Continue(p, [pc |-> "user_update_insert", user |-> user])
    /\ UNCHANGED <<titles, reviews, comments, seq>>

(* the UPDATE matched no row: the INSERT of instance.save() *)
UserUpdateInsert(p) ==
    /\ At(p, "user_update_insert")
    /\ IF InsertFails(users, p.user)
       THEN /\ users' = users
            /\ Answer(p, "user_update", 500)
       ELSE /\ users' = Insert(users, p.user)
            /\ Answer(p, "user_update", 200)
    /\ UNCHANGED <<titles, reviews, comments, seq>>

(* The primary keys stored in a user table *)
Ids(table) == {table[v].id : v \in DOMAIN table}

(* The foreign keys of the rows, as the database checks them *)
ForeignKeysHold(us, ts, rs, cs) ==
    /\ \A r \in DOMAIN rs : rs[r].title \in ts /\ rs[r].author \in Ids(us)
    /\ \A c \in DOMAIN cs :
          cs[c].review \in DOMAIN rs /\ cs[c].author \in Ids(us)

(* DELETE /users/{username} among concurrent requests: the permission and *)
(* the SELECT of get_object                                               *)
UserDestroyGet(p, u) ==
    /\ At(p, "authenticated")
    /\ IF ~AdminAndSuperUser(p.user)
       THEN Answer(p, "user_destroy", Refusal(p.user))
       ELSE IF u \notin DOMAIN users
       THEN Answer(p, "user_destroy", 404)
       ELSE Continue(p, [pc |-> "user_destroy_collect",
                         user |-> Instance(u, users[u])])
    /\ UNCHANGED db

(* instance.delete() collects what cascades: it SELECTs the reviews whose *)
(* author_id is the primary key of the user, which comments depend on;    *)
(* the comments themselves are deleted by their foreign key, without a    *)
(* SELECT                                                                 *)
UserDestroyCollect(p) ==
    /\ At(p, "user_destroy_collect")
    /\ Continue(p, [pc |-> "user_destroy_delete", user |-> p.user,
                    reviews |-> CascadedReviews({}, {p.user["id"]})])
    /\ UNCHANGED db

(* then it deletes in one transaction: the comments of the user and of    *)
(* the collected reviews, the collected reviews, the user's row by its    *)
(* primary key.  The foreign keys are checked at the commit: a review of  *)
(* the user inserted since the SELECT fails it, the transaction is rolled *)
(* back and the IntegrityError answered with 500                          *)
UserDestroyDelete(p) ==
    /\ At(p, "user_destroy_delete")
    /\ LET U == {p.user["id"]}
           C == CascadedComments(p.reviews, U)
           us == [v \in {w \in DOMAIN users : users[w].id \notin U} |-> users[v]]
           rs == [r \in DOMAIN reviews \ p.reviews |-> reviews[r]]
           cs == [c \in DOMAIN comments \ C |-> comments[c]]
       IN  IF ForeignKeysHold(us, titles, rs, cs)
           THEN /\ users' = us
                /\ reviews' = rs
                /\ comments' = cs
                /\ Answer(p, "user_destroy", 204)
           ELSE /\ UNCHANGED <<users, reviews, comments>>
                /\ Answer(p, "user_destroy", 500)
    /\ UNCHANGED <<titles, seq>>

(* Faulty variant: the role of the request body is saved *)
MeRoleFromBody(user, r) == r

(* The role me() writes into validated_data before saving: that of        *)
(* request.user, the instance loaded when the request was authenticated   *)
MeRole(user, r) == user["role"]

(* GET and PATCH /users/me, served without another request in between *)
me(req, method, e, r) ==
    /\ IF ~IsAuthenticated(request_user(req))
       THEN /\ users' = users
            /\ last' = Response(IF method = "GET" THEN "me_GET" ELSE "me_PATCH", 401)
       ELSE IF method = "GET"
       THEN /\ users' = users
            /\ last' = Response("me_GET", 200)
       ELSE /\ LET user == request_user(req)
               IN  users' = Save(users, SaveUser(user, e, MeRole(user, r)))
            /\ last' = Response("me_PATCH", 200)
    /\ UNCHANGED <<titles, reviews, comments, seq, inflight>>

(* /users/me among concurrent requests: a GET is answered from            *)
(* request.user                                                           *)
meGet(p) ==
    /\ At(p, "authenticated")
    /\ IF ~IsAuthenticated(p.user)
       THEN Answer(p, "me_GET", 401)
       ELSE Answer(p, "me_GET", 200)
    /\ UNCHANGED db

(* a PATCH sets the validated data and the pinned role on request.user;   *)
(* then the UPDATE of serializer.save()                                   *)
meUpdate(p, e, r) ==
    /\ At(p, "authenticated")
    /\ IF ~IsAuthenticated(p.user)
       THEN /\ users' = users
            /\ Answer(p, "me_PATCH", 401)
       ELSE LET user == SaveUser(p.user, e, MeRole(p.user, r))
            IN  IF UpdateHits(users, user)
                THEN /\ users' = Update(users, user)
                     /\ Answer(p, "me_PATCH", 200)
                ELSE /\ users' = users
                     /\ Continue(p, [pc |-> "me_insert", user |-> user])
    /\ UNCHANGED <<titles, reviews, comments, seq>>

(* the UPDATE matched no row: the INSERT of serializer.save() *)
meInsert(p) ==
    /\ At(p, "me_insert")
    /\ IF InsertFails(users, p.user)
       THEN /\ users' = users
            /\ Answer(p, "me_PATCH", 500)
       ELSE /\ users' = Insert(users, p.user)
            /\ Answer(p, "me_PATCH", 200)
    /\ UNCHANGED <<titles, reviews, comments, seq>>

----------------------------------------------------------------------------
(* Permission policies of the title, review and comment resources *)

SAFE_METHODS == {"GET"}

AdminOrReadOnly(user, method) == method \in SAFE_METHODS \/ IsAdmin(user)

IsAuthenticatedOrReadOnly(user, method) ==
    method \in SAFE_METHODS \/ IsAuthenticated(user)

(* has_permission and has_object_permission of AuthorAdminModeratorOrReadOnly *)
AuthorAdminModeratorOrReadOnly(user, method) ==
    method \in SAFE_METHODS \/ IsAuthenticated(user)

AuthorAdminModeratorOrReadOnlyObject(user, method, author) ==
    \/ method \in SAFE_METHODS
    \/ user["id"] = author
    \/ IsModerator(user)
    \/ IsAdmin(user)

(* permission_classes of ReviewsViewSet *)
ReviewsPermission(user, method) == AuthorAdminModeratorOrReadOnly(user, method)

(* Faulty variant: permission_classes = (IsAuthenticatedOrReadOnly,) *)
ReviewsObjectPermissionOpen(user, method, author) == TRUE

ReviewsObjectPermission(user, method, author) ==
    AuthorAdminModeratorOrReadOnlyObject(user, method, author)

(* permission_classes of CommentsViewSet *)
CommentsPermission(user, method) ==
    /\ AuthorAdminModeratorOrReadOnly(user, method)
    /\ IsAuthenticatedOrReadOnly(user, method)

CommentsObjectPermission(user, method, author) ==
    AuthorAdminModeratorOrReadOnlyObject(user, method, author)

----------------------------------------------------------------------------
(* Title resource *)

NullRating == [num |-> 0, den |-> 0]

RECURSIVE GCD(_, _)
GCD(a, b) == IF b = 0 THEN a ELSE GCD(b, a % b)

(* The quotient n / d, in lowest terms *)
Quotient(n, d) == [num |-> n \div GCD(n, d), den |-> d \div GCD(n, d)]

RECURSIVE SumScores(_)
SumScores(R) ==
    IF R = {} THEN 0
    ELSE LET r == CHOOSE x \in R : TRUE
         IN  reviews[r].score + SumScores(R \ {r})

(* Avg("reviews__score"): the reviews joined to the title through the      *)
(* `reviews` relation, averaged; NULL when the join has no row             *)
Avg(t) ==
    LET R == {r \in DOMAIN reviews : reviews[r].title = t}
    IN  IF R = {} THEN NullRating ELSE Quotient(SumScores(R), Cardinality(R))

(* A row of Title.objects.annotate(rating=Avg("reviews__score")) *)
AnnotatedTitle(t) == [id |-> t, rating |-> Avg(t)]

(* fields = '__all__' of TitlesSerializer: the fields the model Titles     *)
(* declares, of those the model keeps                                      *)
TitlesFields == {"id"}

(* TitlesSerializer(instance).data: the declared fields of the instance;   *)
(* an annotation of the queryset is not among them                         *)
TitlesSerializer(instance) == [f \in TitlesFields |-> instance[f]]

(* POST /titles *)
TitleCreate(req) ==
    /\ IF ~AdminOrReadOnly(request_user(req), "POST")
       THEN /\ titles' = titles
            /\ seq' = seq
            /\ last' = Response("title_create", Refusal(request_user(req)))
       ELSE /\ seq.titles < MaxTitles
            /\ titles' = titles \cup {NewId(seq.titles)}
            /\ seq' = [seq EXCEPT !.titles = NewId(@)]
            /\ last' = Response("title_create", 201)
    /\ UNCHANGED <<users, reviews, comments, inflight>>

(* GET /titles/{id} *)
TitleRetrieve(req, t) ==
    /\ IF t \notin titles
       THEN last' = Response("title_retrieve", 404)
       ELSE last' = [Response("title_retrieve", 200) EXCEPT
                        !.body = TitlesSerializer(AnnotatedTitle(t))]
    /\ UNCHANGED <<users, titles, reviews, comments, seq, inflight>>

(* PATCH /titles/{id} *)
TitleUpdate(req, t) ==
    /\ IF ~AdminOrReadOnly(request_user(req), "PATCH")
       THEN last' = Response("title_update", Refusal(request_user(req)))
       ELSE IF t \notin titles
       THEN last' = Response("title_update", 404)
       ELSE last' = Response("title_update", 200)
    /\ UNCHANGED <<users, titles, reviews, comments, seq, inflight>>

(* DELETE /titles/{id} *)
TitleDestroy(req, t) ==
    IF ~AdminOrReadOnly(request_user(req), "DELETE")
    THEN /\ last' = Response("title_destroy", Refusal(request_user(req)))
         /\ UNCHANGED <<users, titles, reviews, comments, seq, inflight>>
    ELSE IF t \notin titles
    THEN /\ last' = Response("title_destroy", 404)
         /\ UNCHANGED <<users, titles, reviews, comments, seq, inflight>>
    ELSE /\ titles' = titles \ {t}
         /\ Cascade({t}, {})
         /\ last' = Response("title_destroy", 204)
         /\ UNCHANGED <<users, seq, inflight>>

(* POST /titles among concurrent requests: the permission and the INSERT *)
TitleCreateSave(p) ==
    /\ At(p, "authenticated")
    /\ IF ~AdminOrReadOnly(p.user, "POST")
       THEN /\ UNCHANGED <<titles, seq>>
            /\ Answer(p, "title_create", Refusal(p.user))
       ELSE /\ seq.titles < MaxTitles
            /\ titles' = titles \cup {NewId(seq.titles)}
            /\ seq' = [seq EXCEPT !.titles = NewId(@)]
            /\ Answer(p, "title_create", 201)
    /\ UNCHANGED <<users, reviews, comments>>

(* PATCH /titles/{id} among concurrent requests: the permission and the   *)
(* SELECT of get_object                                                   *)
TitleUpdateGet(p, t) ==
    /\ At(p, "authenticated")
    /\ IF ~AdminOrReadOnly(p.user, "PATCH")
       THEN Answer(p, "title_update", Refusal(p.user))
       ELSE IF t \notin titles
       THEN Answer(p, "title_update", 404)
       ELSE Continue(p, [pc |-> "title_update_save", title |-> t])
    /\ UNCHANGED db

(* serializer.save(): the UPDATE of instance.save() *)
TitleUpdateUpdate(p) ==
    /\ At(p, "title_update_save")
    /\ IF p.title \in titles
       THEN Answer(p, "title_update", 200)
       ELSE Continue(p, [pc |-> "title_update_insert", title |-> p.title])
    /\ UNCHANGED db

(* the UPDATE matched no row: the INSERT of instance.save(), with the     *)
(* primary key of the instance                                            *)
TitleUpdateInsert(p) ==
    /\ At(p, "title_update_insert")
    /\ IF p.title \in titles
       THEN /\ titles' = titles
            /\ Answer(p, "title_update", 500)
       ELSE /\ titles' = titles \cup {p.title}
            /\ Answer(p, "title_update", 200)
    /\ UNCHANGED <<users, reviews, comments, seq>>

(* DELETE /titles/{id} among concurrent requests: the permission and the  *)
(* SELECT of get_object                                                   *)
TitleDestroyGet(p, t) ==
    /\ At(p, "authenticated")
    /\ IF ~AdminOrReadOnly(p.user, "DELETE")
       THEN Answer(p, "title_destroy", Refusal(p.user))
       ELSE IF t \notin titles
       THEN Answer(p, "title_destroy", 404)
       ELSE Continue(p, [pc |-> "title_destroy_collect", title |-> t])
    /\ UNCHANGED db

(* instance.delete() collects what cascades: it SELECTs the reviews of    *)
(* the title, which comments depend on                                    *)
TitleDestroyCollect(p) ==
    /\ At(p, "title_destroy_collect")
    /\ Continue(p, [pc |-> "title_destroy_delete", title |-> p.title,
                    reviews |-> CascadedReviews({p.title}, {})])
    /\ UNCHANGED db

(* then it deletes in one transaction: the comments of the collected      *)
(* reviews, the collected reviews, the title.  The foreign keys are       *)
(* checked at the commit: a review of the title inserted since the SELECT *)
(* fails it, the transaction is rolled back and the IntegrityError        *)
(* answered with 500                                                      *)
TitleDestroyDelete(p) ==
    /\ At(p, "title_destroy_delete")
    /\ LET C == CascadedComments(p.reviews, {})
           ts == titles \ {p.title}
           rs == [r \in DOMAIN reviews \ p.reviews |-> reviews[r]]
           cs == [c \in DOMAIN comments \ C |-> comments[c]]
       IN  IF ForeignKeysHold(users, ts, rs, cs)
           THEN /\ titles' = ts
                /\ reviews' = rs
                /\ comments' = cs
                /\ Answer(p, "title_destroy", 204)
           ELSE /\ UNCHANGED <<titles, reviews, comments>>
                /\ Answer(p, "title_destroy", 500)
    /\ UNCHANGED <<users, seq>>

----------------------------------------------------------------------------
(* Review resource *)

(* Faulty variant: .count() > 1 in place of .exists() *)
HasSeveralReviews(u, t) ==
    Cardinality({r \in DOMAIN reviews :
                    reviews[r].title = t /\ reviews[r].author = u}) > 1

(* title.reviews.filter(author=request.user).exists() *)
HasReview(u, t) ==
    \E r \in DOMAIN reviews : reviews[r].title = t /\ reviews[r].author = u

(* get_queryset followed by the lookup of the review by primary key *)
ReviewFound(t, r) ==
    t \in titles /\ r \in DOMAIN reviews /\ reviews[r].title = t

(* POST /titles/{title_id}/reviews *)
ReviewCreate(req, t, s) ==
    /\ IF ~ReviewsPermission(request_user(req), "POST")
       THEN /\ UNCHANGED <<reviews, seq>>
            /\ last' = Response("review_create", Refusal(request_user(req)))
       ELSE IF t \notin titles
       THEN /\ UNCHANGED <<reviews, seq>>
            /\ last' = Response("review_create", 404)
       ELSE IF HasReview(request_user(req)["id"], t)
       THEN /\ UNCHANGED <<reviews, seq>>
            /\ last' = Response("review_create", 400)
       ELSE /\ seq.reviews < MaxReviews
            /\ reviews' = reviews @@
                  (NewId(seq.reviews) :> ReviewRow(request_user(req)["id"], t, s))
            /\ seq' = [seq EXCEPT !.reviews = NewId(@)]
            /\ last' = Response("review_create", 201)
    /\ UNCHANGED <<users, titles, comments, inflight>>

(* perform_create among concurrent requests, statement by statement: the  *)
(* permission and get_object_or_404(Title, pk=title_id)                   *)
ReviewCreateTitle(p, t) ==
    /\ At(p, "authenticated")
    /\ IF ~ReviewsPermission(p.user, "POST")
       THEN Answer(p, "review_create", Refusal(p.user))
       ELSE IF t \notin titles
       THEN Answer(p, "review_create", 404)
       ELSE Continue(p, [pc |-> "review_create_exists",
                         user |-> p.user, title |-> t])
    /\ UNCHANGED db

(* title.reviews.filter(author=request.user).exists() *)
ReviewCreateExists(p) ==
    /\ At(p, "review_create_exists")
    /\ IF HasReview(p.user["id"], p.title)
       THEN Answer(p, "review_create", 400)
       ELSE Continue(p, [pc |-> "review_create_save",
                         user |-> p.user, title |-> p.title])
    /\ UNCHANGED db

(* The INSERT of serializer.save(author=request.user, title=title); the   *)
(* foreign keys of the row are checked by the database, and an INSERT     *)
(* they reject stores nothing and raises IntegrityError                   *)
ReviewCreateSave(p, s) ==
    /\ At(p, "review_create_save")
    /\ LET row == ReviewRow(p.user["id"], p.title, s)
       IN  IF ~ForeignKeysHold(users, titles, (0 :> row), <<>>)
           THEN /\ UNCHANGED <<reviews, seq>>
                /\ Answer(p, "review_create", 500)
           ELSE /\ seq.reviews < MaxReviews
                /\ reviews' = reviews @@ (NewId(seq.reviews) :> row)
                /\ seq' = [seq EXCEPT !.reviews = NewId(@)]
                /\ Answer(p, "review_create", 201)
    /\ UNCHANGED <<users, titles, comments>>

(* GET /titles/{title_id}/reviews/{id} *)
ReviewRetrieve(req, t, r) ==
    /\ IF ~ReviewsPermission(request_user(req), "GET")
       THEN last' = Response("review_retrieve", Refusal(request_user(req)))
       ELSE IF ~ReviewFound(t, r)
       THEN last' = Response("review_retrieve", 404)
       ELSE IF ~ReviewsObjectPermission(request_user(req), "GET", reviews[r].author)
       THEN last' = Response("review_retrieve", 403)
       ELSE last' = Response("review_retrieve", 200)
    /\ UNCHANGED <<users, titles, reviews, comments, seq, inflight>>

(* PATCH /titles/{title_id}/reviews/{id} *)
ReviewUpdate(req, t, r, s) ==
    /\ IF ~ReviewsPermission(request_user(req), "PATCH")
       THEN /\ reviews' = reviews
            /\ last' = Response("review_update", Refusal(request_user(req)))
       ELSE IF ~ReviewFound(t, r)
       THEN /\ reviews' = reviews
            /\ last' = Response("review_update", 404)
       ELSE IF ~ReviewsObjectPermission(request_user(req), "PATCH", reviews[r].author)
       THEN /\ reviews' = reviews
            /\ last' = Response("review_update", 403)
       ELSE /\ reviews' = [reviews EXCEPT ![r].score = s]
            /\ last' = Response("review_update", 200)
    /\ UNCHANGED <<users, titles, comments, seq, inflight>>

(* DELETE /titles/{title_id}/reviews/{id} *)
ReviewDestroy(req, t, r) ==
    IF ~ReviewsPermission(request_user(req), "DELETE")
    THEN /\ last' = Response("review_destroy", Refusal(request_user(req)))
         /\ UNCHANGED <<users, titles, reviews, comments, seq, inflight>>
    ELSE IF ~ReviewFound(t, r)
    THEN /\ last' = Response("review_destroy", 404)
         /\ UNCHANGED <<users, titles, reviews, comments, seq, inflight>>
    ELSE IF ~ReviewsObjectPermission(request_user(req), "DELETE", reviews[r].author)
    THEN /\ last' = Response("review_destroy", 403)
         /\ UNCHANGED <<users, titles, reviews, comments, seq, inflight>>
    ELSE /\ reviews' = Without(reviews, r)
         /\ comments' = [c \in DOMAIN comments \ CascadedComments({r}, {})
                            |-> comments[c]]
         /\ last' = Response("review_destroy", 204)
         /\ UNCHANGED <<users, titles, seq, inflight>>

(* PATCH /titles/{title_id}/reviews/{id} among concurrent requests: the   *)
(* permission and the get_object_or_404 of get_queryset                   *)
ReviewUpdateTitle(p, t) ==
    /\ At(p, "authenticated")
    /\ IF ~ReviewsPermission(p.user, "PATCH")
       THEN Answer(p, "review_update", Refusal(p.user))
       ELSE IF t \notin titles
       THEN Answer(p, "review_update", 404)
       ELSE Continue(p, [pc |-> "review_update_get",
                         user |-> p.user, title |-> t])
    /\ UNCHANGED db

(* the SELECT of get_object in the reviews of the title, and the          *)
(* permission on the review it loads                                      *)
ReviewUpdateGet(p, r) ==
    /\ At(p, "review_update_get")
    /\ IF ~(r \in DOMAIN reviews /\ reviews[r].title = p.title)
       THEN Answer(p, "review_update", 404)
       ELSE IF ~ReviewsObjectPermission(p.user, "PATCH", reviews[r].author)
       THEN Answer(p, "review_update", 403)
       ELSE Continue(p, [pc |-> "review_update_save", id |-> r,
                         review |-> reviews[r]])
    /\ UNCHANGED db

(* serializer.save(): the validated data are set on the instance, then    *)
(* the UPDATE of instance.save() sets every column of the row with the    *)
(* primary key of the instance                                            *)
ReviewUpdateUpdate(p, s) ==
    /\ At(p, "review_update_save")
    /\ LET instance == [p.review EXCEPT !.score = s]
       IN  IF p.id \in DOMAIN reviews
           THEN /\ reviews' = [reviews EXCEPT ![p.id] = instance]
                /\ Answer(p, "review_update", 200)
           ELSE /\ reviews' = reviews
                /\ Continue(p, [pc |-> "review_update_insert", id |-> p.id,
                                review |-> instance])
    /\ UNCHANGED <<users, titles, comments, seq>>

(* the UPDATE matched no row: the INSERT of instance.save(), with the     *)
(* primary key of the instance; IntegrityError when that key is stored by *)
(* now or a foreign key of the row is not                                 *)
ReviewUpdateInsert(p) ==
    /\ At(p, "review_update_insert")
    /\ IF \/ p.id \in DOMAIN reviews
          \/ ~ForeignKeysHold(users, titles, (p.id :> p.review), <<>>)
       THEN /\ reviews' = reviews
            /\ Answer(p, "review_update", 500)
       ELSE /\ reviews' = reviews @@ (p.id :> p.review)
            /\ Answer(p, "review_update", 200)
    /\ UNCHANGED <<users, titles, comments, seq>>

(* DELETE /titles/{title_id}/reviews/{id} among concurrent requests: the  *)
(* permission and the get_object_or_404 of get_queryset                   *)
ReviewDestroyTitle(p, t) ==
    /\ At(p, "authenticated")
    /\ IF ~ReviewsPermission(p.user, "DELETE")
       THEN Answer(p, "review_destroy", Refusal(p.user))
       ELSE IF t \notin titles
       THEN Answer(p, "review_destroy", 404)
       ELSE Continue(p, [pc |-> "review_destroy_get",
                         user |-> p.user, title |-> t])
    /\ UNCHANGED db

(* the SELECT of get_object in the reviews of the title, and the          *)
(* permission on the review it loads                                      *)
ReviewDestroyGet(p, r) ==
    /\ At(p, "review_destroy_get")
    /\ IF ~(r \in DOMAIN reviews /\ reviews[r].title = p.title)
       THEN Answer(p, "review_destroy", 404)
       ELSE IF ~ReviewsObjectPermission(p.user, "DELETE", reviews[r].author)
       THEN Answer(p, "review_destroy", 403)
       ELSE Continue(p, [pc |-> "review_destroy_delete", review |-> r])
    /\ UNCHANGED db

(* instance.delete(): one transaction deletes the comments of the review  *)
(* by their foreign key and the review by its primary key, whether or not *)
(* the rows are still stored                                              *)
ReviewDestroyDelete(p) ==
    /\ At(p, "review_destroy_delete")
    /\ reviews' = [r \in DOMAIN reviews \ {p.review} |-> reviews[r]]
    /\ comments' = [c \in DOMAIN comments \ CascadedComments({p.review}, {})
                       |-> comments[c]]
    /\ Answer(p, "review_destroy", 204)
    /\ UNCHANGED <<users, titles, seq>>

----------------------------------------------------------------------------
(* Comment resource *)

(* get_object_or_404(Review, pk=review_id, title=title_id) *)
CommentsReviewFound(t, r) == r \in DOMAIN reviews /\ reviews[r].title = t

(* get_queryset followed by the lookup of the comment by primary key *)
CommentFound(t, r, c) ==
    CommentsReviewFound(t, r) /\ c \in DOMAIN comments /\ comments[c].review = r

(* POST /titles/{title_id}/reviews/{review_id}/comments *)
CommentCreate(req, t, r, x) ==
    /\ IF ~CommentsPermission(request_user(req), "POST")
       THEN /\ UNCHANGED <<comments, seq>>
            /\ last' = Response("comment_create", Refusal(request_user(req)))
       ELSE IF ~CommentsReviewFound(t, r)
       THEN /\ UNCHANGED <<comments, seq>>
            /\ last' = Response("comment_create", 404)
       ELSE /\ seq.comments < MaxComments
            /\ comments' = comments @@
                  (NewId(seq.comments) :>
                      CommentRow(request_user(req)["id"], r, x))
            /\ seq' = [seq EXCEPT !.comments = NewId(@)]
            /\ last' = Response("comment_create", 201)
    /\ UNCHANGED <<users, titles, reviews, inflight>>

(* perform_create among concurrent requests: the permission and           *)
(* get_object_or_404(Review, pk=review_id, title=title_id)                *)
CommentCreateReview(p, t, r) ==
    /\ At(p, "authenticated")
    /\ IF ~CommentsPermission(p.user, "POST")
       THEN Answer(p, "comment_create", Refusal(p.user))
       ELSE IF ~CommentsReviewFound(t, r)
       THEN Answer(p, "comment_create", 404)
       ELSE Continue(p, [pc |-> "comment_create_save",
                         user |-> p.user, review |-> r])
    /\ UNCHANGED db

(* then the INSERT of serializer.save(author=request.user,                *)
(* review=review), checked against the foreign keys                       *)
CommentCreateSave(p, x) ==
    /\ At(p, "comment_create_save")
    /\ LET row == CommentRow(p.user["id"], p.review, x)
       IN  IF ~ForeignKeysHold(users, titles, reviews, (0 :> row))
           THEN /\ UNCHANGED <<comments, seq>>
                /\ Answer(p, "comment_create", 500)
           ELSE /\ seq.comments < MaxComments
                /\ comments' = comments @@ (NewId(seq.comments) :> row)
                /\ seq' = [seq EXCEPT !.comments = NewId(@)]
                /\ Answer(p, "comment_create", 201)
    /\ UNCHANGED <<users, titles, reviews>>

(* GET /titles/{title_id}/reviews/{review_id}/comments/{id} *)
CommentRetrieve(req, t, r, c) ==
    /\ IF ~CommentsPermission(request_user(req), "GET")
       THEN last' = Response("comment_retrieve", Refusal(request_user(req)))
       ELSE IF ~CommentFound(t, r, c)
       THEN last' = Response("comment_retrieve", 404)
       ELSE IF ~CommentsObjectPermission(request_user(req), "GET", comments[c].author)
       THEN last' = Response("comment_retrieve", 403)
       ELSE last' = Response("comment_retrieve", 200)
    /\ UNCHANGED <<users, titles, reviews, comments, seq, inflight>>

(* PATCH /titles/{title_id}/reviews/{review_id}/comments/{id} *)
CommentUpdate(req, t, r, c, x) ==
    /\ IF ~CommentsPermission(request_user(req), "PATCH")
       THEN /\ comments' = comments
            /\ last' = Response("comment_update", Refusal(request_user(req)))
       ELSE IF ~CommentFound(t, r, c)
       THEN /\ comments' = comments
            /\ last' = Response("comment_update", 404)
       ELSE IF ~CommentsObjectPermission(request_user(req), "PATCH", comments[c].author)
       THEN /\ comments' = comments
            /\ last' = Response("comment_update", 403)
       ELSE /\ comments' = [comments EXCEPT ![c].text = x]
            /\ last' = Response("comment_update", 200)
    /\ UNCHANGED <<users, titles, reviews, seq, inflight>>

(* DELETE /titles/{title_id}/reviews/{review_id}/comments/{id} *)
CommentDestroy(req, t, r, c) ==
    /\ IF ~CommentsPermission(request_user(req), "DELETE")
       THEN /\ comments' = comments
            /\ last' = Response("comment_destroy", Refusal(request_user(req)))
       ELSE IF ~CommentFound(t, r, c)
       THEN /\ comments' = comments
            /\ last' = Response("comment_destroy", 404)
       ELSE IF ~CommentsObjectPermission(request_user(req), "DELETE", comments[c].author)
       THEN /\ comments' = comments
            /\ last' = Response("comment_destroy", 403)
       ELSE /\ comments' = Without(comments, c)
            /\ last' = Response("comment_destroy", 204)
    /\ UNCHANGED <<users, titles, reviews, seq, inflight>>

(* PATCH and DELETE of a comment among concurrent requests: the           *)
(* permission and the get_object_or_404 of get_queryset                   *)
CommentUpdateReview(p, t, r) ==
    /\ At(p, "authenticated")
    /\ IF ~CommentsPermission(p.user, "PATCH")
       THEN Answer(p, "comment_update", Refusal(p.user))
       ELSE IF ~CommentsReviewFound(t, r)
       THEN Answer(p, "comment_update", 404)
       ELSE Continue(p, [pc |-> "comment_update_get",
                         user |-> p.user, review |-> r])
    /\ UNCHANGED db

(* the SELECT of get_object in the comments of the review, and the        *)
(* permission on the comment it loads                                     *)
CommentUpdateGet(p, c) ==
    /\ At(p, "comment_update_get")
    /\ IF ~(c \in DOMAIN comments /\ comments[c].review = p.review)
       THEN Answer(p, "comment_update", 404)
       ELSE IF ~CommentsObjectPermission(p.user, "PATCH", comments[c].author)
       THEN Answer(p, "comment_update", 403)
       ELSE Continue(p, [pc |-> "comment_update_save", id |-> c,
                         comment |-> comments[c]])
    /\ UNCHANGED db

(* serializer.save(): the UPDATE of instance.save() *)
CommentUpdateUpdate(p, x) ==
    /\ At(p, "comment_update_save")
    /\ LET instance == [p.comment EXCEPT !.text = x]
       IN  IF p.id \in DOMAIN comments
           THEN /\ comments' = [comments EXCEPT ![p.id] = instance]
                /\ Answer(p, "comment_update", 200)
           ELSE /\ comments' = comments
                /\ Continue(p, [pc |-> "comment_update_insert", id |-> p.id,
                                comment |-> instance])
    /\ UNCHANGED <<users, titles, reviews, seq>>

(* the UPDATE matched no row: the INSERT of instance.save(), with the     *)
(* primary key of the instance                                            *)
CommentUpdateInsert(p) ==
    /\ At(p, "comment_update_insert")
    /\ IF \/ p.id \in DOMAIN comments
          \/ ~ForeignKeysHold(users, titles, reviews, (p.id :> p.comment))
       THEN /\ comments' = comments
            /\ Answer(p, "comment_update", 500)
       ELSE /\ comments' = comments @@ (p.id :> p.comment)
            /\ Answer(p, "comment_update", 200)
    /\ UNCHANGED <<users, titles, reviews, seq>>

CommentDestroyReview(p, t, r) ==
    /\ At(p, "authenticated")
    /\ IF ~CommentsPermission(p.user, "DELETE")
       THEN Answer(p, "comment_destroy", Refusal(p.user))
       ELSE IF ~CommentsReviewFound(t, r)
       THEN Answer(p, "comment_destroy", 404)
       ELSE Continue(p, [pc |-> "comment_destroy_get",
                         user |-> p.user, review |-> r])
    /\ UNCHANGED db

CommentDestroyGet(p, c) ==
    /\ At(p, "comment_destroy_get")
    /\ IF ~(c \in DOMAIN comments /\ comments[c].review = p.review)
       THEN Answer(p, "comment_destroy", 404)
       ELSE IF ~CommentsObjectPermission(p.user, "DELETE", comments[c].author)
       THEN Answer(p, "comment_destroy", 403)
       ELSE Continue(p, [pc |-> "comment_destroy_delete", id |-> c])
    /\ UNCHANGED db

(* instance.delete(): nothing depends on a comment, so the one DELETE by  *)
(* primary key, whether or not the row is still stored                    *)
CommentDestroyDelete(p) ==
    /\ At(p, "comment_destroy_delete")
    /\ comments' = [c \in DOMAIN comments \ {p.id} |-> comments[c]]
    /\ Answer(p, "comment_destroy", 204)
    /\ UNCHANGED <<users, titles, reviews, seq>>

----------------------------------------------------------------------------

InitAuth ==
    /\ users = ("admin" :> UserRow(1, "a@x.com", "admin"))
    /\ titles = {}
    /\ reviews = <<>>
    /\ comments = <<>>
    /\ seq = [users |-> 1, titles |-> 0, reviews |-> 0, comments |-> 0]
    /\ inflight = EmptyBag
    /\ last = Response("none", 0)

(* Who may send a request: the holder of a token of a stored user, or nobody *)
Requesters == DOMAIN users \cup {Anon}

NextAuth ==
    \/ \E u \in SignupNames, e \in Emails, c \in Codes : signup(u, e, c)
    \/ \E u \in SignupNames, c \in Codes : get_token(u, c)
    \/ \E req \in Requesters, u \in SignupNames, e \in Emails,
          r \in ROLES \cup {Unset} : UserCreate(req, u, e, r)
    \/ \E req \in Requesters, u \in SignupNames, e \in Emails \cup {Unset},
          r \in ROLES \cup {Unset} : UserPartialUpdate(req, u, e, r)
    \/ \E req \in Requesters, u \in SignupNames : UserDestroy(req, u)
    \/ \E req \in Requesters, method \in {"GET", "PATCH"},
          e \in Emails \cup {Unset}, r \in ROLES \cup {Unset} :
          me(req, method, e, r)

SpecAuth == InitAuth /\ [][NextAuth]_vars

----------------------------------------------------------------------------
(* The content resources, on a database that already holds an             *)
(* administrator, a moderator and a plain user                            *)

InitContent ==
    /\ users = ("admin" :> UserRow(1, "a@x.com", "admin"))
            @@ ("mod" :> UserRow(2, "m@x.com", "moderator"))
            @@ ("alice" :> UserRow(3, "b@x.com", "user"))
    /\ titles = {}
    /\ reviews = <<>>
    /\ comments = <<>>
    /\ seq = [users |-> 3, titles |-> 0, reviews |-> 0, comments |-> 0]
    /\ inflight = EmptyBag
    /\ last = Response("none", 0)

(* Ids a URL may name: those the sequences hand out, and for a title one   *)
(* that no row ever has                                                   *)
UrlTitles == 1 .. MaxTitles + 1
UrlReviews == 1 .. MaxReviews
UrlComments == 1 .. MaxComments

NextContent ==
    \/ \E req \in Requesters : TitleCreate(req)
    \/ \E req \in Requesters, t \in UrlTitles : TitleRetrieve(req, t)
    \/ \E req \in Requesters, t \in UrlTitles : TitleUpdate(req, t)
    \/ \E req \in Requesters, t \in UrlTitles : TitleDestroy(req, t)
    \/ \E req \in Requesters, t \in UrlTitles, sc \in Scores :
          ReviewCreate(req, t, sc)
    \/ \E req \in Requesters, t \in UrlTitles, r \in UrlReviews :
          ReviewRetrieve(req, t, r)
    \/ \E req \in Requesters, t \in UrlTitles, r \in UrlReviews, sc \in Scores :
          ReviewUpdate(req, t, r, sc)
    \/ \E req \in Requesters, t \in UrlTitles, r \in UrlReviews :
          ReviewDestroy(req, t, r)
    \/ \E req \in Requesters, t \in UrlTitles, r \in UrlReviews, x \in Texts :
          CommentCreate(req, t, r, x)
    \/ \E req \in Requesters, t \in UrlTitles, r \in UrlReviews,
          c \in UrlComments : CommentRetrieve(req, t, r, c)
    \/ \E req \in Requesters, t \in UrlTitles, r \in UrlReviews,
          c \in UrlComments, x \in Texts : CommentUpdate(req, t, r, c, x)
    \/ \E req \in Requesters, t \in UrlTitles, r \in UrlReviews,
          c \in UrlComments : CommentDestroy(req, t, r, c)
    \/ \E req \in Requesters, u \in DOMAIN users : UserDestroy(req, u)

SpecContent == InitContent /\ [][NextContent]_vars

----------------------------------------------------------------------------
(* The content resources by concurrent requests: every statement of a     *)
(* handler is a step, and the steps of the requests in flight interleave  *)
(* freely                                                                 *)

(* Who sends the concurrent requests, and what they carry: the ids the    *)
(* title sequence hands out; one score and one text in a creation and     *)
(* another in a PATCH, since no statement branches on them; the username  *)
(* and e-mail of one user to sign up again after a DELETE; reviews and    *)
(* comments are posted by that user, as stored before or after, and       *)
(* changed and deleted by both; that user is the one to be deleted        *)
ConcRequesters == {"admin", "alice"}
ConcTitles == 1 .. MaxTitles
ConcScores == {2}
ConcTexts == {"good"}
ConcPatchScores == {1}
ConcPatchTexts == {"bad"}
ConcSignups == {"alice"}
ConcAuthors == {"alice"}
ConcSignupEmails == {"b@x.com"}
ConcSignupCodes == {"1111"}

InFlight == BagToSet(inflight)

(* The requests that have just been authenticated as one of the users U *)
SentBy(U) ==
    {p \in InFlight : p.pc = "authenticated" /\ p.user["username"] \in U}

NextConc ==
    \/ \E req \in ConcRequesters \cap DOMAIN users : authenticate(req)
    \/ \E u \in ConcSignups, e \in ConcSignupEmails : signupGet(u, e)
    \/ \E p \in InFlight : signupCreate(p)
    \/ \E p \in InFlight : signupGetAgain(p)
    \/ \E p \in InFlight, c \in ConcSignupCodes : signupUpdate(p, c)
    \/ \E p \in InFlight : signupInsert(p)
    \/ \E p \in InFlight : TitleCreateSave(p)
    \/ \E p \in InFlight, t \in ConcTitles : TitleUpdateGet(p, t)
    \/ \E p \in InFlight : TitleUpdateUpdate(p)
    \/ \E p \in InFlight : TitleUpdateInsert(p)
    \/ \E p \in InFlight, t \in ConcTitles : TitleDestroyGet(p, t)
    \/ \E p \in InFlight : TitleDestroyCollect(p)
    \/ \E p \in InFlight : TitleDestroyDelete(p)
    \/ \E p \in SentBy(ConcAuthors), t \in ConcTitles : ReviewCreateTitle(p, t)
    \/ \E p \in InFlight : ReviewCreateExists(p)
    \/ \E p \in InFlight, sc \in ConcScores : ReviewCreateSave(p, sc)
    \/ \E p \in InFlight, t \in ConcTitles : ReviewUpdateTitle(p, t)
    \/ \E p \in InFlight, r \in UrlReviews : ReviewUpdateGet(p, r)
    \/ \E p \in InFlight, sc \in ConcPatchScores : ReviewUpdateUpdate(p, sc)
    \/ \E p \in InFlight : ReviewUpdateInsert(p)
    \/ \E p \in InFlight, t \in ConcTitles : ReviewDestroyTitle(p, t)
    \/ \E p \in InFlight, r \in UrlReviews : ReviewDestroyGet(p, r)
    \/ \E p \in InFlight : ReviewDestroyDelete(p)
    \/ \E p \in SentBy(ConcAuthors), t \in ConcTitles, r \in UrlReviews :
          CommentCreateReview(p, t, r)
    \/ \E p \in InFlight, x \in ConcTexts : CommentCreateSave(p, x)
    \/ \E p \in InFlight, t \in ConcTitles, r \in UrlReviews :
          CommentUpdateReview(p, t, r)
    \/ \E p \in InFlight, c \in UrlComments : CommentUpdateGet(p, c)
    \/ \E p \in InFlight, x \in ConcPatchTexts : CommentUpdateUpdate(p, x)
    \/ \E p \in InFlight : CommentUpdateInsert(p)
    \/ \E p \in InFlight, t \in ConcTitles, r \in UrlReviews :
          CommentDestroyReview(p, t, r)
    \/ \E p \in InFlight, c \in UrlComments : CommentDestroyGet(p, c)
    \/ \E p \in InFlight : CommentDestroyDelete(p)
    \/ \E p \in InFlight, u \in ConcSignups : UserDestroyGet(p, u)
    \/ \E p \in InFlight : UserDestroyCollect(p)
    \/ \E p \in InFlight : UserDestroyDelete(p)

(* The database the concurrent requests start on: an administrator and a  *)
(* plain user, and room in the sequence for one more user                 *)
InitConc ==
    /\ users = ("admin" :> UserRow(1, "a@x.com", "admin"))
            @@ ("alice" :> UserRow(2, "b@x.com", "user"))
    /\ titles = {}
    /\ reviews = <<>>
    /\ comments = <<>>
    /\ seq = [users |-> 2, titles |-> 0, reviews |-> 0, comments |-> 0]
    /\ inflight = EmptyBag
    /\ last = Response("none", 0)

SpecConc == InitConc /\ [][NextConc]_vars

----------------------------------------------------------------------------
(* The user handlers by concurrent requests: every statement of signup,   *)
(* POST /users, /users/me and an administrator's PATCH and DELETE of a    *)
(* user is a step, and the steps of the requests in flight interleave     *)
(* freely                                                                 *)

(* What the concurrent requests carry: two usernames and one e-mail to    *)
(* sign up or create, one code, a role in an administrator's PATCH, and   *)
(* in a PATCH /users/me the admin role with or without an e-mail          *)
ConcNames == {"alice", "bob"}
ConcEmails == {"b@x.com"}
ConcCodes == {"1111"}
ConcRoles == {"user", "moderator"}

NextConcUsers ==
    \/ \E req \in DOMAIN users : authenticate(req)
    \/ \E u \in ConcNames, e \in ConcEmails : signupGet(u, e)
    \/ \E p \in InFlight : signupCreate(p)
    \/ \E p \in InFlight : signupGetAgain(p)
    \/ \E p \in InFlight, c \in ConcCodes : signupUpdate(p, c)
    \/ \E p \in InFlight : signupInsert(p)
    \/ \E p \in InFlight, u \in ConcNames, e \in ConcEmails :
          UserCreateIsValid(p, u, e, Unset)
    \/ \E p \in InFlight : UserCreateEmail(p)
    \/ \E p \in InFlight : UserCreateGet(p)
    \/ \E p \in InFlight : UserCreateInsert(p)
    \/ \E p \in InFlight : UserCreateGetAgain(p)
    \/ \E p \in InFlight : meGet(p)
    \/ \E p \in InFlight, e \in ConcEmails \cup {Unset}, r \in {"admin"} :
          meUpdate(p, e, r)
    \/ \E p \in InFlight : meInsert(p)
    \/ \E p \in InFlight, u \in ConcNames : UserUpdateGet(p, u)
    \/ \E p \in InFlight, e \in Emails \cup {Unset}, r \in ConcRoles :
          UserUpdateUpdate(p, e, r)
    \/ \E p \in InFlight : UserUpdateInsert(p)
    \/ \E p \in InFlight, u \in SignupNames : UserDestroyGet(p, u)
    \/ \E p \in InFlight : UserDestroyCollect(p)
    \/ \E p \in InFlight : UserDestroyDelete(p)

SpecConcUsers == InitAuth /\ [][NextConcUsers]_vars

----------------------------------------------------------------------------
(* Properties of the authentication flow and the user resource (SpecAuth) *)

(* C3: get_token answers 404 when no user has the username, else 400 when *)
(* the supplied code differs from the code stored on that user, else 200  *)
(* with a token for that user; a token is issued only when the supplied   *)
(* code equals the stored code of the named user; get_token changes no    *)
(* stored user data.                                                      *)
C3_GetTokenOutcomes ==
    [][last'.op = "get_token" => \A u \in SignupNames, c \in Codes :
          get_token(u, c) =>
            /\ users' = users
            /\ last'.op = "get_token"
            /\ last'.status \in {200, 400, 404}
            /\ (last'.status = 404) <=> (u \notin DOMAIN users)
            /\ (last'.status = 400) <=>
                  (u \in DOMAIN users /\ confirmation_code(users[u]) # c)
            /\ (last'.status = 200) <=>
                  (u \in DOMAIN users /\ confirmation_code(users[u]) = c)
            /\ (last'.token # NoToken) <=> (last'.status = 200)
            /\ (last'.token # NoToken) => (last'.token = u)]_vars

EmailsUnique(table) ==
    \A u, v \in DOMAIN table : table[u].email = table[v].email => u = v

(* C5: signup and POST /users keep emails unique: a step of either, taken *)
(* when no two users share an email, leaves no two users with one email,  *)
(* and POST /users with a stored email answers 400 and creates no user.   *)
C5_EmailUniquenessEnforced ==
    [][/\ last'.op = "signup" =>
             (EmailsUnique(users) => EmailsUnique(users'))
       /\ last'.op = "user_create" =>
             /\ EmailsUnique(users) => EmailsUnique(users')
             /\ \A req \in Requesters, u \in SignupNames, e \in Emails,
                   r \in ROLES \cup {Unset} :
                   (/\ IsAdmin(request_user(req))
                    /\ \E v \in DOMAIN users : users[v].email = e
                    /\ UserCreate(req, u, e, r)) =>
                      (last'.status = 400 /\ users' = users)]_vars

(* C6: signup repeated with the (username, email) pair of a stored user    *)
(* answers 200, keeps the set of users, and changes nothing but that      *)
(* user's confirmation code: the generated code is the code stored on the *)
(* user after the request.                                                *)
C6_SignupIdempotent ==
    [][last'.op = "signup" => \A u \in SignupNames, e \in Emails, c \in Codes :
          (u \in DOMAIN users /\ users[u].email = e /\ signup(u, e, c)) =>
            /\ last'.status = 200
            /\ DOMAIN users' = DOMAIN users
            /\ confirmation_code(users'[u]) = c
            /\ users'[u].email = users[u].email
            /\ users'[u].role = users[u].role
            /\ \A v \in DOMAIN users \ {u} : users'[v] = users[v]]_vars

(* C7: a confirmation code stays valid until a signup overwrites it: a    *)
(* signup stores the code it generated on the user, a token exchange with *)
(* the stored code succeeds and leaves the code stored, the stored code   *)
(* of a user changes only in a signup for that user, and an exchange with *)
(* a code other than the stored one is 400.                               *)
C7_CodeValidUntilSignup ==
    [][/\ last'.op = "signup" =>
             \A u \in SignupNames, e \in Emails, c \in Codes :
                (signup(u, e, c) /\ last'.status = 200) =>
                   confirmation_code(users'[u]) = c
       /\ last'.op = "get_token" => \A u \in SignupNames, c \in Codes :
             (u \in DOMAIN users /\ get_token(u, c)) =>
                /\ confirmation_code(users[u]) = c =>
                      (last'.status = 200 /\ confirmation_code(users'[u]) = c)
                /\ confirmation_code(users[u]) # c => last'.status = 400
       /\ \A u \in DOMAIN users \cap DOMAIN users' :
             confirmation_code(users'[u]) # confirmation_code(users[u]) =>
                last'.op = "signup"]_vars

----------------------------------------------------------------------------
(* Properties of the content resources (SpecContent, SpecConc) *)

(* C1: a POST to a title's reviews by a user who has a review on that     *)
(* title answers 400 and leaves the reviews as they were.                 *)
C1_DuplicateReviewRejected ==
    [][last'.op = "review_create" =>
       \A req \in DOMAIN users, t \in UrlTitles, sc \in Scores :
          (/\ \E r \in DOMAIN reviews :
                 reviews[r].author = users[req].id /\ reviews[r].title = t
           /\ ReviewCreate(req, t, sc)) =>
            /\ last'.op = "review_create"
            /\ last'.status = 400
            /\ reviews' = reviews]_vars

(* A second POST was rejected: every stored review is alice's, and the    *)
(* model has room for another                                             *)
C1_Witness ==
    /\ last.op = "review_create"
    /\ last.status = 400
    /\ DOMAIN reviews # {}
    /\ seq.reviews < MaxReviews
    /\ "alice" \in DOMAIN users
    /\ \A r \in DOMAIN reviews : reviews[r].author = users["alice"].id

(* C2: no two reviews share author and title, also when the check and the *)
(* insert of concurrent create requests interleave.                       *)
C2_OneReviewPerAuthorAndTitle ==
    \A r1, r2 \in DOMAIN reviews :
        (reviews[r1].author = reviews[r2].author
            /\ reviews[r1].title = reviews[r2].title) => r1 = r2

RECURSIVE TotalScore(_)
TotalScore(R) ==
    IF R = {} THEN 0
    ELSE LET m == CHOOSE x \in R : \A y \in R : y <= x
         IN  TotalScore(R \ {m}) + reviews[m].score

(* C8: the rating in the representation of every title is the mean of the *)
(* scores of its reviews (rating * count = sum), and null when it has     *)
(* none.                                                                  *)
C8_RatingIsMean ==
    \A t \in titles :
        LET R == {r \in DOMAIN reviews : reviews[r].title = t}
            representation == TitlesSerializer(AnnotatedTitle(t))
        IN  /\ "rating" \in DOMAIN representation
            /\ LET rating == representation["rating"]
               IN  IF R = {}
                   THEN rating = NullRating
                   ELSE /\ rating.den > 0
                        /\ rating.num * Cardinality(R) =
                              TotalScore(R) * rating.den

Privileged(req) ==
    req \in DOMAIN users /\ users[req].role \in {"moderator", "admin"}

(* C9: a PATCH or DELETE of a review or comment is denied, and leaves all *)
(* reviews and comments as they were, unless the requester is the author  *)
(* of that review or comment, a moderator or an admin; a GET of a review  *)
(* or comment is served to every requester.                               *)
C9_OnlyAuthorOrStaffChanges ==
    [][LET denied == /\ last'.status \in {401, 403}
                     /\ reviews' = reviews
                     /\ comments' = comments
       IN
       /\ (last'.op = "review_update" /\ ~denied) =>
             \A req \in Requesters, t \in UrlTitles, r \in UrlReviews, sc \in Scores :
                (ReviewFound(t, r) /\ ReviewUpdate(req, t, r, sc)) =>
                   (request_user(req)["id"] = reviews[r].author \/ Privileged(req))
       /\ (last'.op = "review_destroy" /\ ~denied) =>
             \A req \in Requesters, t \in UrlTitles, r \in UrlReviews :
                (ReviewFound(t, r) /\ ReviewDestroy(req, t, r)) =>
                   (request_user(req)["id"] = reviews[r].author \/ Privileged(req))
       /\ (last'.op = "comment_update" /\ ~denied) =>
             \A req \in Requesters, t \in UrlTitles, r \in UrlReviews,
                c \in UrlComments, x \in Texts :
                (CommentFound(t, r, c) /\ CommentUpdate(req, t, r, c, x)) =>
                   (request_user(req)["id"] = comments[c].author \/ Privileged(req))
       /\ (last'.op = "comment_destroy" /\ ~denied) =>
             \A req \in Requesters, t \in UrlTitles, r \in UrlReviews,
                c \in UrlComments :
                (CommentFound(t, r, c) /\ CommentDestroy(req, t, r, c)) =>
                   (request_user(req)["id"] = comments[c].author \/ Privileged(req))
       /\ (last'.op = "review_retrieve" /\ last'.status # 200) =>
             \A req \in Requesters, t \in UrlTitles, r \in UrlReviews :
                ReviewRetrieve(req, t, r) => ~ReviewFound(t, r)
       /\ (last'.op = "comment_retrieve" /\ last'.status # 200) =>
             \A req \in Requesters, t \in UrlTitles, r \in UrlReviews,
                c \in UrlComments :
                CommentRetrieve(req, t, r, c) => ~CommentFound(t, r, c)]_vars

(* A PATCH of a comment was denied with 403: the comment and the review   *)
(* are by staff, so the requester was the plain user                      *)
C9_Witness ==
    /\ last.op = "comment_update"
    /\ last.status = 403
    /\ DOMAIN comments # {}
    /\ \A c \in DOMAIN comments : \E v \in DOMAIN users :
          users[v].id = comments[c].author /\ Privileged(v)
    /\ \A r \in DOMAIN reviews : \E v \in DOMAIN users :
          users[v].id = reviews[r].author /\ Privileged(v)

ReferentialIntegrity ==
    /\ \A r \in DOMAIN reviews :
          reviews[r].title \in titles /\ reviews[r].author \in Ids(users)
    /\ \A c \in DOMAIN comments :
          comments[c].review \in DOMAIN reviews
             /\ comments[c].author \in Ids(users)

====
